---- MODULE Spec2Model ----
(***************************************************************************)
(* State model of the editor store of src/editor/state.js: the undoable    *)
(* editor reducer (post, blocksByUid, blockOrder), the selectedBlock,      *)
(* hoveredBlock, mode, isSidebarOpened and api reducers, and the store     *)
(* that combines them.  Every dispatch is one step of the model.           *)
(*                                                                         *)
(* JavaScript objects are functions over their own keys, arrays are        *)
(* sequences read with 0-based helpers, and a reducer result carries the   *)
(* value together with whether it is the reference it was given ("same")   *)
(* or a freshly allocated one ("new").                                     *)
(***************************************************************************)
EXTENDS Integers, Sequences, FiniteSets

\* The property names of the events and of the state objects, with the object
\* each belongs to.  Records list their properties in this order.
PropertyNames ==
    [after           |-> "INSERT_BLOCK event",
     api             |-> "store state",
     attributes      |-> "block",
     block           |-> "INSERT_BLOCK, SWITCH_BLOCK_TYPE event",
     blockNodes      |-> "EDIT_POST event",
     blockOrder      |-> "editor state",
     blockType       |-> "block",
     blocksByUid     |-> "editor state",
     config          |-> "UPDATE_FOCUS event",
     editable        |-> "focus",
     editor          |-> "store state",
     error           |-> "api state, POST_UPDATE_REQUEST_FAILURE event",
     focus           |-> "selectedBlock state",
     future          |-> "history",
     history         |-> "editor state",
     hovered         |-> "TOGGLE_BLOCK_HOVERED event",
     hoveredBlock    |-> "store state",
     isNew           |-> "api state, POST_UPDATE_REQUEST* events",
     isSidebarOpened |-> "store state",
     mode            |-> "store state, SWITCH_MODE event",
     past            |-> "history",
     post            |-> "editor state, EDIT_POST event",
     present         |-> "history",
     ref             |-> "reducer result",
     requesting      |-> "api state",
     selected        |-> "TOGGLE_BLOCK_SELECTED event",
     selectedBlock   |-> "store state",
     successful      |-> "api state",
     type            |-> "event",
     typing          |-> "selectedBlock state",
     uid             |-> "block, selectedBlock state, event",
     updates         |-> "UPDATE_BLOCK event",
     val             |-> "reducer result"]

VARIABLES store, action, prev, steps

vars == <<store, action, prev, steps>>

---------------------------------------------------------------------------
(* Bounds of the model. *)

\* Number of dispatches explored from the freshly created store when every
\* event kind may be dispatched.
MaxSteps == 3

\* Number of dispatches explored when only the events the editor reducer
\* handles are dispatched.
MaxEdits == 4

\* Retained undo depth of the history record (the policy is configuration).
HistoryDepth == 2

---------------------------------------------------------------------------
(* JavaScript values and the lodash / Array helpers the reducers use. *)

Undefined == "undefined"

Null == "null"

EmptyObj == [k \in {} |-> Undefined]

Truthy(v) == v # Undefined /\ v # Null

\* obj[ key ] for a key that may be missing
Get(obj, key) == IF key \in DOMAIN obj THEN obj[key] ELSE Undefined

\* { ...obj } for an obj that may be undefined, read from a map
GetObj(obj, key) == IF key \in DOMAIN obj THEN obj[key] ELSE EmptyObj

\* { ...a, ...b }
Assign(a, b) ==
    [k \in DOMAIN a \cup DOMAIN b |-> IF k \in DOMAIN b THEN b[k] ELSE a[k]]

\* { ...obj, [ key ]: value }
Put(obj, key, value) ==
    [k \in DOMAIN obj \cup {key} |-> IF k = key THEN value ELSE obj[k]]

\* lodash omit( obj, key )
omit(obj, key) == [k \in DOMAIN obj \ {key} |-> obj[k]]

\* arr[ i ], 0-based, undefined out of range
At(arr, i) == IF i >= 0 /\ i < Len(arr) THEN arr[i + 1] ELSE Undefined

\* lodash last( arr )
last(arr) == At(arr, Len(arr) - 1)

\* Array.prototype.indexOf: 0-based index of the first occurrence, or -1
indexOf(arr, x) ==
    IF \E i \in 1..Len(arr) : arr[i] = x
    THEN (CHOOSE i \in 1..Len(arr) :
              arr[i] = x /\ \A j \in 1..(i - 1) : arr[j] # x) - 1
    ELSE -1

\* relative index of Array.prototype.slice, clamped into 0..length
Clamp(arr, i) ==
    IF i < 0
    THEN (IF Len(arr) + i < 0 THEN 0 ELSE Len(arr) + i)
    ELSE (IF i > Len(arr) THEN Len(arr) ELSE i)

\* Array.prototype.slice( start, end )
slice2(arr, start, end) ==
    LET s == Clamp(arr, start)
        e == Clamp(arr, end)
    IN  IF s >= e THEN <<>> ELSE SubSeq(arr, s + 1, e)

\* Array.prototype.slice( start )
slice(arr, start) == slice2(arr, start, Len(arr))

\* lodash without( arr, x )
without(arr, x) == SelectSeq(arr, LAMBDA y : y # x)

\* blockNodes.map( ( { uid } ) => uid )
mapUid(nodes) == [i \in 1..Len(nodes) |-> nodes[i].uid]

\* lodash keyBy( nodes, 'uid' ): a later node replaces an earlier one
keyBy(nodes) ==
    [u \in {nodes[i].uid : i \in 1..Len(nodes)} |->
        nodes[CHOOSE i \in 1..Len(nodes) :
                  nodes[i].uid = u /\ \A j \in (i + 1)..Len(nodes) : nodes[j].uid # u]]

\* A reducer result: the value and whether it is the state it was given.
Same(v) == [ref |-> "same", val |-> v]

New(v) == [ref |-> "new", val |-> v]

---------------------------------------------------------------------------
(* The three reducers of the editor (src/editor/state.js 26-119). *)

\* post without the POST_UPDATE_REQUEST_SUCCESS case
post_ignoresSuccess(state, a) ==
    CASE a.type = "EDIT_POST" ->
            IF Truthy(Get(a, "post")) THEN New(a.post) ELSE Same(state)
      [] OTHER -> Same(state)

post(state, a) ==
    CASE a.type = "EDIT_POST" ->
            IF Truthy(Get(a, "post")) THEN New(a.post) ELSE Same(state)
      [] a.type = "POST_UPDATE_REQUEST_SUCCESS" -> New(Get(a, "post"))
      [] OTHER -> Same(state)

blocksByUid(state, a) ==
    CASE a.type = "EDIT_POST" -> New(keyBy(a.blockNodes))
      [] a.type = "UPDATE_BLOCK" ->
            New(Put(state, a.uid, Assign(GetObj(state, a.uid), a.updates)))
      [] a.type = "INSERT_BLOCK" -> New(Put(state, a.block.uid, a.block))
      [] a.type = "SWITCH_BLOCK_TYPE" -> New(Put(state, a.uid, a.block))
      [] a.type = "REMOVE_BLOCK" -> New(omit(state, a.uid))
      [] OTHER -> Same(state)

\* blockOrder without the "already first" test of MOVE_BLOCK_UP
blockOrder_noFirstTest(state, a) ==
    CASE a.type = "EDIT_POST" -> New(mapUid(a.blockNodes))
      [] a.type = "INSERT_BLOCK" ->
            LET position == IF Truthy(Get(a, "after"))
                            THEN indexOf(state, a.after) + 1
                            ELSE Len(state)
            IN  New(slice2(state, 0, position) \o <<a.block.uid>>
                        \o slice(state, position))
      [] a.type = "MOVE_BLOCK_UP" ->
            LET index == indexOf(state, a.uid)
                swappedUid == At(state, index - 1)
            IN  New(slice2(state, 0, index - 1) \o <<a.uid, swappedUid>>
                        \o slice(state, index + 1))
      [] a.type = "MOVE_BLOCK_DOWN" ->
            IF a.uid = last(state)
            THEN Same(state)
            ELSE LET index == indexOf(state, a.uid)
                     swappedUid == At(state, index + 1)
                 IN  New(slice2(state, 0, index) \o <<swappedUid, a.uid>>
                             \o slice(state, index + 2))
      [] a.type = "REMOVE_BLOCK" -> New(without(state, a.uid))
      [] OTHER -> Same(state)

\* blockOrder whose INSERT_BLOCK takes the anchor's index as the position
blockOrder_insertAtAnchor(state, a) ==
    CASE a.type = "EDIT_POST" -> New(mapUid(a.blockNodes))
      [] a.type = "INSERT_BLOCK" ->
            LET position == IF Truthy(Get(a, "after"))
                            THEN indexOf(state, a.after)
                            ELSE Len(state)
            IN  New(slice2(state, 0, position) \o <<a.block.uid>>
                        \o slice(state, position))
      [] a.type = "MOVE_BLOCK_UP" ->
            IF a.uid = At(state, 0)
            THEN Same(state)
            ELSE LET index == indexOf(state, a.uid)
                     swappedUid == At(state, index - 1)
                 IN  New(slice2(state, 0, index - 1) \o <<a.uid, swappedUid>>
                             \o slice(state, index + 1))
      [] a.type = "MOVE_BLOCK_DOWN" ->
            IF a.uid = last(state)
            THEN Same(state)
            ELSE LET index == indexOf(state, a.uid)
                     swappedUid == At(state, index + 1)
                 IN  New(slice2(state, 0, index) \o <<swappedUid, a.uid>>
                             \o slice(state, index + 2))
      [] a.type = "REMOVE_BLOCK" -> New(without(state, a.uid))
      [] OTHER -> Same(state)

blockOrder(state, a) ==
    CASE a.type = "EDIT_POST" -> New(mapUid(a.blockNodes))
      [] a.type = "INSERT_BLOCK" ->
            LET position == IF Truthy(Get(a, "after"))
                            THEN indexOf(state, a.after) + 1
                            ELSE Len(state)
            IN  New(slice2(state, 0, position) \o <<a.block.uid>>
                        \o slice(state, position))
      [] a.type = "MOVE_BLOCK_UP" ->
            IF a.uid = At(state, 0)
            THEN Same(state)
            ELSE LET index == indexOf(state, a.uid)
                     swappedUid == At(state, index - 1)
                 IN  New(slice2(state, 0, index - 1) \o <<a.uid, swappedUid>>
                             \o slice(state, index + 1))
      [] a.type = "MOVE_BLOCK_DOWN" ->
            IF a.uid = last(state)
            THEN Same(state)
            ELSE LET index == indexOf(state, a.uid)
                     swappedUid == At(state, index + 1)
                 IN  New(slice2(state, 0, index) \o <<swappedUid, a.uid>>
                             \o slice(state, index + 2))
      [] a.type = "REMOVE_BLOCK" -> New(without(state, a.uid))
      [] OTHER -> Same(state)

\* no reset type configured
ResetTypes_none == {}

\* INSERT_BLOCK listed as a reset type too
ResetTypes_withInsert == {"EDIT_POST", "INSERT_BLOCK"}

\* { resetTypes: [ 'EDIT_POST' ] }
ResetTypes == {"EDIT_POST"}

\* The object literal handed to combineUndoableReducers: every reducer applied
\* to its own key of the present.
editorReducers(present, a) ==
    [blockOrder |-> blockOrder(present.blockOrder, a),
     blocksByUid |-> blocksByUid(present.blocksByUid, a),
     post |-> post(present.post, a)]

---------------------------------------------------------------------------
(* The history engine, utils/undoable-reducer (spec.md 4.1). *)

Vals(results) == [k \in DOMAIN results |-> results[k].val]

Changed(results) == \E k \in DOMAIN results : results[k].ref = "new"

\* past with present pushed, the oldest entries dropped beyond the depth
Pushed(past, present) ==
    LET all == Append(past, present)
    IN  IF Len(all) > HistoryDepth
        THEN SubSeq(all, Len(all) - HistoryDepth + 1, Len(all))
        ELSE all

Front(s) == SubSeq(s, 1, Len(s) - 1)

\* undo: the newest past entry becomes the present, the present the first future
undo(h) ==
    [future |-> <<h.present>> \o h.future,
     past |-> Front(h.past),
     present |-> h.past[Len(h.past)]]

\* a redo that forgets to put the present back onto the past
redo_dropsPresent(h) ==
    [future |-> Tail(h.future),
     past |-> h.past,
     present |-> Head(h.future)]

\* redo: the mirror of undo
redo(h) ==
    [future |-> Tail(h.future),
     past |-> Append(h.past, h.present),
     present |-> Head(h.future)]

\* state is { history: { past, present, future } }; results are the reducers'
\* results on history.present
combineUndoableReducers(results, resetTypes, state, a) ==
    LET h == state.history
    IN  CASE a.type = "UNDO" ->
                IF Len(h.past) = 0 THEN Same(state) ELSE New([history |-> undo(h)])
          [] a.type = "REDO" ->
                IF Len(h.future) = 0 THEN Same(state) ELSE New([history |-> redo(h)])
          [] a.type \in resetTypes ->
                New([history |-> [future |-> <<>>,
                                  past |-> <<>>,
                                  present |-> Vals(results)]])
          [] a.type \notin resetTypes \cup {"UNDO", "REDO"} /\ ~Changed(results) ->
                Same(state)
          [] OTHER ->
                New([history |-> [future |-> <<>>,
                                  past |-> Pushed(h.past, h.present),
                                  present |-> Vals(results)]])

\* export const editor = combineUndoableReducers( { ... }, { resetTypes } )
editor(state, a) ==
    combineUndoableReducers(editorReducers(state.history.present, a),
                            ResetTypes, state, a)

---------------------------------------------------------------------------
(* The reducers outside the history (src/editor/state.js 128-261). *)

\* a primitive result: the same value is the same reference
Prim(state, v) == IF v = state THEN Same(state) ELSE New(v)

\* selectedBlock whose deselect only drops the uid
selectedBlock_deselectKeepsTyping(state, a) ==
    CASE a.type = "TOGGLE_BLOCK_SELECTED" ->
            IF ~a.selected
            THEN (IF Get(state, "uid") = a.uid THEN New(omit(state, "uid")) ELSE Same(state))
            ELSE (IF a.uid = Get(state, "uid")
                  THEN Same(state)
                  ELSE New([focus |-> EmptyObj,
                            typing |-> FALSE,
                            uid |-> a.uid]))
      [] a.type \in {"MOVE_BLOCK_UP", "MOVE_BLOCK_DOWN"} ->
            IF a.uid = Get(state, "uid")
            THEN Same(state)
            ELSE New([focus |-> EmptyObj, typing |-> FALSE, uid |-> a.uid])
      [] a.type = "INSERT_BLOCK" ->
            New([focus |-> EmptyObj, typing |-> FALSE, uid |-> a.block.uid])
      [] a.type = "UPDATE_FOCUS" ->
            New([focus |-> IF "config" \in DOMAIN a THEN a.config ELSE EmptyObj,
                 typing |-> IF Get(state, "uid") = a.uid
                            THEN Get(state, "typing")
                            ELSE FALSE,
                 uid |-> a.uid])
      [] a.type = "START_TYPING" ->
            IF a.uid # Get(state, "uid")
            THEN New([focus |-> EmptyObj, typing |-> TRUE, uid |-> a.uid])
            ELSE New(Assign(state, [typing |-> TRUE]))
      [] OTHER -> Same(state)

\* selectedBlock whose moves always reset the selection
selectedBlock_moveAlwaysResets(state, a) ==
    CASE a.type = "TOGGLE_BLOCK_SELECTED" ->
            IF ~a.selected
            THEN (IF Get(state, "uid") = a.uid THEN New(EmptyObj) ELSE Same(state))
            ELSE (IF a.uid = Get(state, "uid")
                  THEN Same(state)
                  ELSE New([focus |-> EmptyObj,
                            typing |-> FALSE,
                            uid |-> a.uid]))
      [] a.type \in {"MOVE_BLOCK_UP", "MOVE_BLOCK_DOWN"} ->
            New([focus |-> EmptyObj, typing |-> FALSE, uid |-> a.uid])
      [] a.type = "INSERT_BLOCK" ->
            New([focus |-> EmptyObj, typing |-> FALSE, uid |-> a.block.uid])
      [] a.type = "UPDATE_FOCUS" ->
            New([focus |-> IF "config" \in DOMAIN a THEN a.config ELSE EmptyObj,
                 typing |-> IF Get(state, "uid") = a.uid
                            THEN Get(state, "typing")
                            ELSE FALSE,
                 uid |-> a.uid])
      [] a.type = "START_TYPING" ->
            IF a.uid # Get(state, "uid")
            THEN New([focus |-> EmptyObj, typing |-> TRUE, uid |-> a.uid])
            ELSE New(Assign(state, [typing |-> TRUE]))
      [] OTHER -> Same(state)

\* selectedBlock whose select does not look at the current selection
selectedBlock_selectAlwaysResets(state, a) ==
    CASE a.type = "TOGGLE_BLOCK_SELECTED" ->
            IF ~a.selected
            THEN (IF Get(state, "uid") = a.uid THEN New(EmptyObj) ELSE Same(state))
            ELSE New([focus |-> EmptyObj, typing |-> FALSE, uid |-> a.uid])
      [] a.type \in {"MOVE_BLOCK_UP", "MOVE_BLOCK_DOWN"} ->
            IF a.uid = Get(state, "uid")
            THEN Same(state)
            ELSE New([focus |-> EmptyObj, typing |-> FALSE, uid |-> a.uid])
      [] a.type = "INSERT_BLOCK" ->
            New([focus |-> EmptyObj, typing |-> FALSE, uid |-> a.block.uid])
      [] a.type = "UPDATE_FOCUS" ->
            New([focus |-> IF "config" \in DOMAIN a THEN a.config ELSE EmptyObj,
                 typing |-> IF Get(state, "uid") = a.uid
                            THEN Get(state, "typing")
                            ELSE FALSE,
                 uid |-> a.uid])
      [] a.type = "START_TYPING" ->
            IF a.uid # Get(state, "uid")
            THEN New([focus |-> EmptyObj, typing |-> TRUE, uid |-> a.uid])
            ELSE New(Assign(state, [typing |-> TRUE]))
      [] OTHER -> Same(state)

\* selectedBlock whose START_TYPING does not look at the current selection
selectedBlock_typingResetsFocus(state, a) ==
    CASE a.type = "TOGGLE_BLOCK_SELECTED" ->
            IF ~a.selected
            THEN (IF Get(state, "uid") = a.uid THEN New(EmptyObj) ELSE Same(state))
            ELSE (IF a.uid = Get(state, "uid")
                  THEN Same(state)
                  ELSE New([focus |-> EmptyObj,
                            typing |-> FALSE,
                            uid |-> a.uid]))
      [] a.type \in {"MOVE_BLOCK_UP", "MOVE_BLOCK_DOWN"} ->
            IF a.uid = Get(state, "uid")
            THEN Same(state)
            ELSE New([focus |-> EmptyObj, typing |-> FALSE, uid |-> a.uid])
      [] a.type = "INSERT_BLOCK" ->
            New([focus |-> EmptyObj, typing |-> FALSE, uid |-> a.block.uid])
      [] a.type = "UPDATE_FOCUS" ->
            New([focus |-> IF "config" \in DOMAIN a THEN a.config ELSE EmptyObj,
                 typing |-> IF Get(state, "uid") = a.uid
                            THEN Get(state, "typing")
                            ELSE FALSE,
                 uid |-> a.uid])
      [] a.type = "START_TYPING" ->
            New([focus |-> EmptyObj, typing |-> TRUE, uid |-> a.uid])
      [] OTHER -> Same(state)

selectedBlock(state, a) ==
    CASE a.type = "TOGGLE_BLOCK_SELECTED" ->
            IF ~a.selected
            THEN (IF Get(state, "uid") = a.uid THEN New(EmptyObj) ELSE Same(state))
            ELSE (IF a.uid = Get(state, "uid")
                  THEN Same(state)
                  ELSE New([focus |-> EmptyObj,
                            typing |-> FALSE,
                            uid |-> a.uid]))
      [] a.type \in {"MOVE_BLOCK_UP", "MOVE_BLOCK_DOWN"} ->
            IF a.uid = Get(state, "uid")
            THEN Same(state)
            ELSE New([focus |-> EmptyObj, typing |-> FALSE, uid |-> a.uid])
      [] a.type = "INSERT_BLOCK" ->
            New([focus |-> EmptyObj, typing |-> FALSE, uid |-> a.block.uid])
      [] a.type = "UPDATE_FOCUS" ->
            New([focus |-> IF "config" \in DOMAIN a THEN a.config ELSE EmptyObj,
                 typing |-> IF Get(state, "uid") = a.uid
                            THEN Get(state, "typing")
                            ELSE FALSE,
                 uid |-> a.uid])
      [] a.type = "START_TYPING" ->
            IF a.uid # Get(state, "uid")
            THEN New([focus |-> EmptyObj, typing |-> TRUE, uid |-> a.uid])
            ELSE New(Assign(state, [typing |-> TRUE]))
      [] OTHER -> Same(state)

\* hoveredBlock without the START_TYPING case
hoveredBlock_typingKeepsHover(state, a) ==
    CASE a.type = "TOGGLE_BLOCK_HOVERED" ->
            Prim(state, IF a.hovered THEN a.uid ELSE Null)
      [] a.type = "TOGGLE_BLOCK_SELECTED" /\ a.selected -> Prim(state, Null)
      [] OTHER -> Same(state)

\* hoveredBlock whose TOGGLE_BLOCK_SELECTED does not look at selected
hoveredBlock_deselectClearsHover(state, a) ==
    CASE a.type = "TOGGLE_BLOCK_HOVERED" ->
            Prim(state, IF a.hovered THEN a.uid ELSE Null)
      [] a.type = "TOGGLE_BLOCK_SELECTED" -> Prim(state, Null)
      [] a.type = "START_TYPING" -> Prim(state, Null)
      [] OTHER -> Same(state)

hoveredBlock(state, a) ==
    CASE a.type = "TOGGLE_BLOCK_HOVERED" ->
            Prim(state, IF a.hovered THEN a.uid ELSE Null)
      [] a.type = "TOGGLE_BLOCK_SELECTED" /\ a.selected -> Prim(state, Null)
      [] a.type = "START_TYPING" -> Prim(state, Null)
      [] OTHER -> Same(state)

\* mode answering its default, not its state, to the events it ignores
mode_defaultOnOther(state, a) ==
    CASE a.type = "SWITCH_MODE" -> Prim(state, a.mode)
      [] OTHER -> Prim(state, "visual")

mode(state, a) ==
    CASE a.type = "SWITCH_MODE" -> Prim(state, a.mode)
      [] OTHER -> Same(state)

\* isSidebarOpened answering its default, not its state, to the events it ignores
isSidebarOpened_defaultOnOther(state, a) ==
    CASE a.type = "TOGGLE_SIDEBAR" -> Prim(state, ~state)
      [] OTHER -> Prim(state, FALSE)

isSidebarOpened(state, a) ==
    CASE a.type = "TOGGLE_SIDEBAR" -> Prim(state, ~state)
      [] OTHER -> Same(state)

api(state, a) ==
    CASE a.type = "POST_UPDATE_REQUEST" ->
            New([error |-> Null,
                 isNew |-> a.isNew,
                 requesting |-> TRUE,
                 successful |-> FALSE])
      [] a.type = "POST_UPDATE_REQUEST_SUCCESS" ->
            New([error |-> Null,
                 isNew |-> a.isNew,
                 requesting |-> FALSE,
                 successful |-> TRUE])
      [] a.type = "POST_UPDATE_REQUEST_FAILURE" ->
            New([error |-> a.error,
                 isNew |-> a.isNew,
                 requesting |-> FALSE,
                 successful |-> TRUE])
      [] OTHER -> Same(state)

---------------------------------------------------------------------------
(* The store (src/editor/state.js 268-282). *)

\* combineReducers( { editor, selectedBlock, hoveredBlock, mode,
\*                    isSidebarOpened, api } )
reducer(state, a) ==
    [api |-> api(state.api, a).val,
     editor |-> editor(state.editor, a).val,
     hoveredBlock |-> hoveredBlock(state.hoveredBlock, a).val,
     isSidebarOpened |-> isSidebarOpened(state.isSidebarOpened, a).val,
     mode |-> mode(state.mode, a).val,
     selectedBlock |-> selectedBlock(state.selectedBlock, a).val]

\* createStore( reducer ): every reducer's default state
createReduxStore ==
    [api |-> EmptyObj,
     editor |-> [history |-> [future |-> <<>>,
                                       past |-> <<>>,
                                       present |-> [blockOrder |-> <<>>,
                                                    blocksByUid |-> EmptyObj,
                                                    post |-> "{}"]]],
     hoveredBlock |-> Null,
     isSidebarOpened |-> FALSE,
     mode |-> "visual",
     selectedBlock |-> EmptyObj]

\* the flattened keys of the editor state read its present
Doc(state) == state.editor.history.present

Past(state) == state.editor.history.past

Future(state) == state.editor.history.future

---------------------------------------------------------------------------
(* The events the model dispatches. *)

Uids == {"a", "b"}

\* Most blocks a loaded document holds.
MaxBlocks == Cardinality(Uids)

\* Longest blockOrder a dispatch may produce (the list grows through
\* INSERT_BLOCK and through moves of identifiers that are not in it).
MaxOrder == MaxBlocks + 1

Block(u) == [blockType |-> "core/test-block", uid |-> u]

Freeform(u) == [blockType |-> "core/freeform", uid |-> u]

BlockLists == UNION {[1..n -> {Block(u) : u \in Uids}] : n \in 0..MaxBlocks}

Init ==
    /\ store = createReduxStore
    /\ action = [type |-> "@@redux/INIT"]
    /\ prev = createReduxStore
    /\ steps = 0

\* store.dispatch( a )
Dispatch(limit, a) ==
    /\ steps < limit
    /\ Len(blockOrder(Doc(store).blockOrder, a).val) <= MaxOrder
    /\ store' = reducer(store, a)
    /\ action' = a
    /\ prev' = store
    /\ steps' = steps + 1

\* a document loaded without a post, or a post with no block yet
EditPost(limit) ==
    \/ \E nodes \in BlockLists :
           Dispatch(limit, [blockNodes |-> nodes, type |-> "EDIT_POST"])
    \/ Dispatch(limit, [blockNodes |-> <<>>, post |-> "p1", type |-> "EDIT_POST"])

UpdateBlock(limit) ==
    \E u \in Uids :
        Dispatch(limit, [type |-> "UPDATE_BLOCK", uid |-> u,
                  updates |-> [attributes |-> "updated"]])

InsertBlock(limit) ==
    \E u \in Uids :
        \/ Dispatch(limit, [block |-> Block(u), type |-> "INSERT_BLOCK"])
        \/ \E anchor \in Uids :
               Dispatch(limit, [after |-> anchor,
                                block |-> Block(u),
                                type |-> "INSERT_BLOCK"])

SwitchBlockType(limit) ==
    \E u \in Uids :
        Dispatch(limit, [block |-> Freeform(u),
                         type |-> "SWITCH_BLOCK_TYPE",
                         uid |-> u])

RemoveBlock(limit) == \E u \in Uids : Dispatch(limit, [type |-> "REMOVE_BLOCK", uid |-> u])

MoveBlockUp(limit) == \E u \in Uids : Dispatch(limit, [type |-> "MOVE_BLOCK_UP", uid |-> u])

MoveBlockDown(limit) == \E u \in Uids : Dispatch(limit, [type |-> "MOVE_BLOCK_DOWN", uid |-> u])

Undo(limit) == Dispatch(limit, [type |-> "UNDO"])

Redo(limit) == Dispatch(limit, [type |-> "REDO"])

ToggleBlockSelected(limit) ==
    \E u \in Uids, b \in BOOLEAN :
        Dispatch(limit, [selected |-> b,
                         type |-> "TOGGLE_BLOCK_SELECTED",
                         uid |-> u])

ToggleBlockHovered(limit) ==
    \E u \in Uids, b \in BOOLEAN :
        Dispatch(limit, [hovered |-> b,
                         type |-> "TOGGLE_BLOCK_HOVERED",
                         uid |-> u])

UpdateFocus(limit) ==
    \E u \in Uids :
        \/ Dispatch(limit, [type |-> "UPDATE_FOCUS", uid |-> u])
        \/ Dispatch(limit, [config |-> [editable |-> "citation"],
                            type |-> "UPDATE_FOCUS",
                            uid |-> u])

StartTyping(limit) == \E u \in Uids : Dispatch(limit, [type |-> "START_TYPING", uid |-> u])

SwitchMode(limit) == \E m \in {"visual", "text"} : Dispatch(limit, [mode |-> m,
                                                                    type |-> "SWITCH_MODE"])

ToggleSidebar(limit) == Dispatch(limit, [type |-> "TOGGLE_SIDEBAR"])

PostUpdateRequest(limit) ==
    \E n \in BOOLEAN : Dispatch(limit, [isNew |-> n,
                                        type |-> "POST_UPDATE_REQUEST"])

\* the answer to the update of an existing post, with the saved post
PostUpdateRequestSuccess(limit) ==
    Dispatch(limit, [isNew |-> FALSE,
                     post |-> "p2",
                     type |-> "POST_UPDATE_REQUEST_SUCCESS"])

PostUpdateRequestFailure(limit) ==
    \E n \in BOOLEAN :
        Dispatch(limit, [error |-> "err",
                         isNew |-> n,
                         type |-> "POST_UPDATE_REQUEST_FAILURE"])

UnknownEvent(limit) == Dispatch(limit, [type |-> "UNKNOWN"])

Next ==
    \/ EditPost(MaxSteps)
    \/ UpdateBlock(MaxSteps)
    \/ InsertBlock(MaxSteps)
    \/ SwitchBlockType(MaxSteps)
    \/ RemoveBlock(MaxSteps)
    \/ MoveBlockUp(MaxSteps)
    \/ MoveBlockDown(MaxSteps)
    \/ Undo(MaxSteps)
    \/ Redo(MaxSteps)
    \/ ToggleBlockSelected(MaxSteps)
    \/ ToggleBlockHovered(MaxSteps)
    \/ UpdateFocus(MaxSteps)
    \/ StartTyping(MaxSteps)
    \/ SwitchMode(MaxSteps)
    \/ ToggleSidebar(MaxSteps)
    \/ PostUpdateRequest(MaxSteps)
    \/ PostUpdateRequestSuccess(MaxSteps)
    \/ PostUpdateRequestFailure(MaxSteps)
    \/ UnknownEvent(MaxSteps)

Spec == Init /\ [][Next]_vars

\* Only the events the editor reducer handles, explored deeper.
EditorNext ==
    \/ EditPost(MaxEdits)
    \/ UpdateBlock(MaxEdits)
    \/ InsertBlock(MaxEdits)
    \/ SwitchBlockType(MaxEdits)
    \/ RemoveBlock(MaxEdits)
    \/ MoveBlockUp(MaxEdits)
    \/ MoveBlockDown(MaxEdits)
    \/ Undo(MaxEdits)
    \/ Redo(MaxEdits)
    \/ PostUpdateRequestSuccess(MaxEdits)

EditorSpec == Init /\ [][EditorNext]_vars

---------------------------------------------------------------------------
(* Properties.  prev is the store before the last dispatch, action the     *)
(* event dispatched, store the result.                                     *)

Order(state) == Doc(state).blockOrder

Blocks(state) == Doc(state).blocksByUid

Occurs(arr, x) == \E i \in 1..Len(arr) : arr[i] = x

IsTyping(sel) == "typing" \in DOMAIN sel /\ sel.typing = TRUE

Selection(u) == [focus |-> EmptyObj, typing |-> FALSE, uid |-> u]

\* C1: after every sequence of document events, blockOrder is a permutation
\* of exactly the keys of blocksByUid: no identifier occurs twice in it, each
\* of its identifiers is a key of the map and each key of the map occurs in it.
C1_OrderIsPermutationOfKeys ==
    /\ \A i, j \in 1..Len(Order(store)) :
           i # j => Order(store)[i] # Order(store)[j]
    /\ {Order(store)[i] : i \in 1..Len(Order(store))} = DOMAIN Blocks(store)

\* C2: an INSERT_BLOCK whose anchor "after" is given but does not occur in
\* blockOrder places the new identifier last.
C2_AbsentAnchorInsertsLast ==
    (/\ action.type = "INSERT_BLOCK"
     /\ "after" \in DOMAIN action
     /\ ~Occurs(Order(prev), action.after))
        => Order(store) = Append(Order(prev), action.block.uid)

\* C3: an EDIT_POST, whatever the past and future held, leaves both empty and
\* makes the present document the loaded blocks in the given order.
C3_LoadResetsHistory ==
    action.type = "EDIT_POST" =>
        LET nodes == action.blockNodes
        IN  /\ Past(store) = <<>>
            /\ Future(store) = <<>>
            /\ Len(Order(store)) = Len(nodes)
            /\ \A i \in 1..Len(nodes) : Order(store)[i] = nodes[i].uid
            /\ DOMAIN Blocks(store) = {nodes[i].uid : i \in 1..Len(nodes)}
            /\ \A u \in DOMAIN Blocks(store) :
                   \E i \in 1..Len(nodes) :
                       nodes[i].uid = u /\ Blocks(store)[u] = nodes[i]

\* C3 witness: a two-block document loaded over a non-empty past and a
\* non-empty future.
C3_LoadOverHistory ==
    /\ action.type = "EDIT_POST"
    /\ Len(action.blockNodes) = 2
    /\ Len(Past(prev)) > 0
    /\ Len(Future(prev)) > 0
    /\ Past(store) = <<>>
    /\ Future(store) = <<>>

\* C4: after an undo from a non-empty past, a redo gives back the editor
\* state before the undo: the same present document, past and future.
C4_UndoThenRedoRestores ==
    (action.type = "UNDO" /\ Len(Past(prev)) > 0)
        => editor(store.editor, [type |-> "REDO"]).val = prev.editor

\* C4 witness: an undo from a past of two entries changed the document, and
\* the redo of it is the state before.
C4_UndoFromDeepPast ==
    /\ action.type = "UNDO"
    /\ Len(Past(prev)) = 2
    /\ Doc(store) # Doc(prev)
    /\ reducer(store, [type |-> "REDO"]).editor = prev.editor

\* C5: an event that is neither the reset event nor undo / redo and changes
\* post, blocksByUid or blockOrder pushes the previous present onto the past
\* (which grows by one, or drops its oldest entry at the maximum depth) and
\* empties the future, so that a redo after it changes nothing.
C5_EditPushesPresent ==
    (/\ action.type \notin {"EDIT_POST", "UNDO", "REDO", "@@redux/INIT"}
     /\ Doc(store) # Doc(prev))
        => /\ Past(store) =
                  IF Len(Past(prev)) < HistoryDepth
                  THEN Append(Past(prev), Doc(prev))
                  ELSE Append(Tail(Past(prev)), Doc(prev))
           /\ Len(Past(store)) =
                  IF Len(Past(prev)) < HistoryDepth
                  THEN Len(Past(prev)) + 1
                  ELSE HistoryDepth
           /\ Future(store) = <<>>
           /\ reducer(store, [type |-> "REDO"]) = store

\* C5 witness: an edit dispatched after an undo, while a redo was pending.
C5_EditAfterUndo ==
    /\ action.type = "INSERT_BLOCK"
    /\ Doc(store) # Doc(prev)
    /\ Len(Future(prev)) > 0
    /\ Len(Past(store)) = Len(Past(prev)) + 1
    /\ Future(store) = <<>>

\* an edit dispatched on a full past, which drops its oldest entry
EditOnFullPast ==
    /\ action.type \notin {"EDIT_POST", "UNDO", "REDO", "@@redux/INIT"}
    /\ Doc(store) # Doc(prev)
    /\ Len(Past(prev)) = HistoryDepth
    /\ Len(Past(store)) = HistoryDepth

\* C6: an undo or a redo leaves selectedBlock, hoveredBlock, mode,
\* isSidebarOpened and api as they were.
C6_UndoRedoKeepOtherSlices ==
    action.type \in {"UNDO", "REDO"} =>
        /\ store.selectedBlock = prev.selectedBlock
        /\ store.hoveredBlock = prev.hoveredBlock
        /\ store.mode = prev.mode
        /\ store.isSidebarOpened = prev.isSidebarOpened
        /\ store.api = prev.api

\* C6 witness: an undo that rolled the document back while a block was
\* selected and the editor was in text mode.
C6_UndoWithSelection ==
    /\ action.type = "UNDO"
    /\ store.editor # prev.editor
    /\ store.selectedBlock # EmptyObj
    /\ store.mode = "text"

\* C7: whenever selectedBlock.typing is true and hoveredBlock is not null,
\* hoveredBlock is selectedBlock.uid.
C7_NoOtherHoverWhileTyping ==
    (IsTyping(store.selectedBlock) /\ store.hoveredBlock # Null)
        => store.hoveredBlock = store.selectedBlock.uid

\* C7 as amended: a START_TYPING, and a TOGGLE_BLOCK_SELECTED with selected
\* true, leave hoveredBlock null, and hoveredBlock only becomes a non-null
\* identifier through a TOGGLE_BLOCK_HOVERED event.
C7_TypingAndSelectClearHover ==
    /\ action.type = "START_TYPING" =>
           store.hoveredBlock = Null /\ IsTyping(store.selectedBlock)
    /\ (action.type = "TOGGLE_BLOCK_SELECTED" /\ action.selected) =>
           store.hoveredBlock = Null
    /\ (store.hoveredBlock # Null /\ store.hoveredBlock # prev.hoveredBlock) =>
           action.type = "TOGGLE_BLOCK_HOVERED"

\* C7 witness: typing started on one block while another one was hovered.
C7_TypingOverOtherHover ==
    /\ action.type = "START_TYPING"
    /\ prev.hoveredBlock # Null
    /\ prev.hoveredBlock # action.uid
    /\ store.hoveredBlock = Null

\* C8: selectedBlock.typing is true only when a block is selected, that is
\* when selectedBlock.uid is an identifier.
C8_TypingImpliesSelected ==
    IsTyping(store.selectedBlock) =>
        Get(store.selectedBlock, "uid") \in Uids

\* C8 witness: the deselection of another block than the one being typed in,
\* which keeps the typing selection.
C8_TypingSurvivesForeignDeselect ==
    /\ action.type = "TOGGLE_BLOCK_SELECTED"
    /\ ~action.selected
    /\ IsTyping(prev.selectedBlock)
    /\ IsTyping(store.selectedBlock)

\* the identifier an insert or a move is about
Affected(a) == IF a.type = "INSERT_BLOCK" THEN a.block.uid ELSE a.uid

\* C9: an INSERT_BLOCK, MOVE_BLOCK_UP or MOVE_BLOCK_DOWN sets the selection
\* to {uid: affected, typing: false, focus: {}} unless the affected identifier
\* is already selected, and then leaves it as it was, for all three kinds.
C9_InsertAndMoveKeepOwnSelection ==
    action.type \in {"INSERT_BLOCK", "MOVE_BLOCK_UP", "MOVE_BLOCK_DOWN"} =>
        IF Get(prev.selectedBlock, "uid") = Affected(action)
        THEN store.selectedBlock = prev.selectedBlock
        ELSE store.selectedBlock = Selection(Affected(action))

\* C9 as amended: the moves do so; an INSERT_BLOCK always sets the selection
\* to {uid: inserted, typing: false, focus: {}}, already selected or not.
C9_MoveKeepsOwnSelectionInsertResets ==
    /\ action.type \in {"MOVE_BLOCK_UP", "MOVE_BLOCK_DOWN"} =>
           IF Get(prev.selectedBlock, "uid") = action.uid
           THEN store.selectedBlock = prev.selectedBlock
           ELSE store.selectedBlock = Selection(action.uid)
    /\ action.type = "INSERT_BLOCK" =>
           store.selectedBlock = Selection(action.block.uid)

\* C9 witness: the move of the block being typed in, which keeps typing.
C9_MoveOfTypingSelection ==
    /\ action.type \in {"MOVE_BLOCK_UP", "MOVE_BLOCK_DOWN"}
    /\ IsTyping(prev.selectedBlock)
    /\ prev.selectedBlock.uid = action.uid
    /\ IsTyping(store.selectedBlock)

\* the insert of the block being typed in, which ends typing
InsertOfTypingSelection ==
    /\ action.type = "INSERT_BLOCK"
    /\ IsTyping(prev.selectedBlock)
    /\ prev.selectedBlock.uid = action.block.uid
    /\ ~IsTyping(store.selectedBlock)

\* C10: moving the first identifier of a non-empty blockOrder up, or the last
\* one down, leaves blockOrder as it was and adds no history entry: the whole
\* editor state is the one before.
C10_EdgeMoveChangesNothing ==
    (/\ Len(Order(prev)) > 0
     /\ \/ action.type = "MOVE_BLOCK_UP" /\ action.uid = Order(prev)[1]
        \/ action.type = "MOVE_BLOCK_DOWN"
               /\ action.uid = Order(prev)[Len(Order(prev))])
        => /\ Order(store) = Order(prev)
           /\ store.editor = prev.editor

\* C10 witness: the first of two blocks moved up, with a past to compare.
C10_FirstOfTwoMovedUp ==
    /\ action.type = "MOVE_BLOCK_UP"
    /\ Len(Order(prev)) = 2
    /\ Order(prev)[1] # Order(prev)[2]
    /\ action.uid = Order(prev)[1]
    /\ Len(Past(prev)) > 0
    /\ Past(store) = Past(prev)

\* arr without its element at the 1-based position i
DropAt(arr, i) == SubSeq(arr, 1, i - 1) \o SubSeq(arr, i + 1, Len(arr))

\* C11: a REMOVE_BLOCK of u deletes the entry of u from blocksByUid and keeps
\* every other entry, and removes exactly one occurrence of u from blockOrder
\* (none when u does not occur), keeping the other identifiers in their order.
C11_RemoveDeletesOneOccurrence ==
    action.type = "REMOVE_BLOCK" =>
        /\ DOMAIN Blocks(store) = DOMAIN Blocks(prev) \ {action.uid}
        /\ \A u \in DOMAIN Blocks(store) : Blocks(store)[u] = Blocks(prev)[u]
        /\ IF Occurs(Order(prev), action.uid)
           THEN \E i \in 1..Len(Order(prev)) :
                    /\ Order(prev)[i] = action.uid
                    /\ Order(store) = DropAt(Order(prev), i)
           ELSE Order(store) = Order(prev)

\* C12: an INSERT_BLOCK without anchor, or with an anchor that occurs in
\* blockOrder, makes the block the entry of its identifier in blocksByUid and
\* keeps the other entries; blockOrder grows by exactly one, the identifier
\* last without anchor and right after an occurrence of the anchor with one,
\* and the identifiers that were there keep their order.
C12_InsertPlacesBlock ==
    (/\ action.type = "INSERT_BLOCK"
     /\ "after" \in DOMAIN action => Occurs(Order(prev), action.after))
        => /\ DOMAIN Blocks(store) = DOMAIN Blocks(prev) \cup {action.block.uid}
           /\ Blocks(store)[action.block.uid] = action.block
           /\ \A u \in DOMAIN Blocks(prev) \ {action.block.uid} :
                  Blocks(store)[u] = Blocks(prev)[u]
           /\ Len(Order(store)) = Len(Order(prev)) + 1
           /\ IF "after" \in DOMAIN action
              THEN \E i \in 1..Len(Order(prev)) :
                       /\ Order(prev)[i] = action.after
                       /\ Order(store)[i + 1] = action.block.uid
                       /\ DropAt(Order(store), i + 1) = Order(prev)
              ELSE Order(store) = Append(Order(prev), action.block.uid)

\* C12 witness: a block inserted after the first of two different blocks,
\* between the two.
C12_InsertBetweenTwo ==
    /\ action.type = "INSERT_BLOCK"
    /\ "after" \in DOMAIN action
    /\ Len(Order(prev)) = 2
    /\ Order(prev)[1] # Order(prev)[2]
    /\ action.after = Order(prev)[1]
    /\ Order(store) = <<Order(prev)[1], action.block.uid, Order(prev)[2]>>

\* the event kinds each reducer has a case for
Cases ==
    [api |-> {"POST_UPDATE_REQUEST", "POST_UPDATE_REQUEST_SUCCESS",
              "POST_UPDATE_REQUEST_FAILURE"},
     blockOrder |-> {"EDIT_POST", "INSERT_BLOCK", "MOVE_BLOCK_UP",
                     "MOVE_BLOCK_DOWN", "REMOVE_BLOCK"},
     blocksByUid |-> {"EDIT_POST", "UPDATE_BLOCK", "INSERT_BLOCK",
                      "SWITCH_BLOCK_TYPE", "REMOVE_BLOCK"},
     hoveredBlock |-> {"TOGGLE_BLOCK_HOVERED", "TOGGLE_BLOCK_SELECTED",
                       "START_TYPING"},
     isSidebarOpened |-> {"TOGGLE_SIDEBAR"},
     mode |-> {"SWITCH_MODE"},
     post |-> {"EDIT_POST", "POST_UPDATE_REQUEST_SUCCESS"},
     selectedBlock |-> {"TOGGLE_BLOCK_SELECTED", "MOVE_BLOCK_UP", "MOVE_BLOCK_DOWN",
                        "INSERT_BLOCK", "UPDATE_FOCUS", "START_TYPING"}]

\* C13: each of post, blocksByUid, blockOrder, selectedBlock, hoveredBlock,
\* mode, isSidebarOpened and api, given an event of a kind it has no case for,
\* returns the state it was given, by reference; and an event of a kind no
\* reducer knows leaves the whole store, history.past and history.future
\* included, as it was.
C13_UnrecognisedKindIsNoOp ==
    /\ action.type \notin Cases.post =>
           post(Doc(prev).post, action) = Same(Doc(prev).post)
    /\ action.type \notin Cases.blocksByUid =>
           blocksByUid(Blocks(prev), action) = Same(Blocks(prev))
    /\ action.type \notin Cases.blockOrder =>
           blockOrder(Order(prev), action) = Same(Order(prev))
    /\ action.type \notin Cases.selectedBlock =>
           /\ selectedBlock(prev.selectedBlock, action) = Same(prev.selectedBlock)
           /\ store.selectedBlock = prev.selectedBlock
    /\ action.type \notin Cases.hoveredBlock =>
           /\ hoveredBlock(prev.hoveredBlock, action) = Same(prev.hoveredBlock)
           /\ store.hoveredBlock = prev.hoveredBlock
    /\ action.type \notin Cases.mode =>
           /\ mode(prev.mode, action) = Same(prev.mode)
           /\ store.mode = prev.mode
    /\ action.type \notin Cases.isSidebarOpened =>
           /\ isSidebarOpened(prev.isSidebarOpened, action) = Same(prev.isSidebarOpened)
           /\ store.isSidebarOpened = prev.isSidebarOpened
    /\ action.type \notin Cases.api =>
           /\ api(prev.api, action) = Same(prev.api)
           /\ store.api = prev.api
    /\ action.type = "UNKNOWN" =>
           /\ editor(prev.editor, action) = Same(prev.editor)
           /\ Past(store) = Past(prev)
           /\ Future(store) = Future(prev)
           /\ store = prev

\* C13 witness: an event of an unknown kind dispatched while a redo was
\* pending, a block selected and the sidebar open.
C13_UnknownOverBusyStore ==
    /\ action.type = "UNKNOWN"
    /\ Len(Past(prev)) + Len(Future(prev)) > 0
    /\ prev.selectedBlock # EmptyObj
    /\ prev.isSidebarOpened
    /\ store = prev

\* C14: a TOGGLE_BLOCK_SELECTED with selected true for the identifier already
\* selected returns the selection it was given (typing and focus kept); with
\* selected false for the selected identifier it makes the selection the empty
\* object; with selected false for another identifier it returns the selection
\* it was given.
C14_ToggleSelectedCases ==
    action.type = "TOGGLE_BLOCK_SELECTED" =>
        LET cur == Get(prev.selectedBlock, "uid")
            res == selectedBlock(prev.selectedBlock, action)
        IN  /\ (action.selected /\ action.uid = cur) =>
                   /\ res.ref = "same"
                   /\ store.selectedBlock = prev.selectedBlock
            /\ (~action.selected /\ action.uid = cur) =>
                   store.selectedBlock = EmptyObj
            /\ (~action.selected /\ action.uid # cur) =>
                   /\ res.ref = "same"
                   /\ store.selectedBlock = prev.selectedBlock

\* C14 witness: the block being typed in, with a focus, selected again.
C14_ReselectWhileTyping ==
    /\ action.type = "TOGGLE_BLOCK_SELECTED"
    /\ action.selected
    /\ IsTyping(prev.selectedBlock)
    /\ prev.selectedBlock.uid = action.uid
    /\ prev.selectedBlock.focus # EmptyObj
    /\ store.selectedBlock = prev.selectedBlock

\* the selected block deselected
DeselectOfSelection ==
    /\ action.type = "TOGGLE_BLOCK_SELECTED"
    /\ ~action.selected
    /\ Get(prev.selectedBlock, "uid") = action.uid
    /\ store.selectedBlock = EmptyObj

\* the event kinds of the vocabulary that are not document events
OtherKinds ==
    {"TOGGLE_BLOCK_SELECTED", "TOGGLE_BLOCK_HOVERED", "UPDATE_FOCUS",
     "START_TYPING", "SWITCH_MODE", "TOGGLE_SIDEBAR", "POST_UPDATE_REQUEST",
     "POST_UPDATE_REQUEST_SUCCESS", "POST_UPDATE_REQUEST_FAILURE"}

\* C15: a TOGGLE_BLOCK_SELECTED, TOGGLE_BLOCK_HOVERED, UPDATE_FOCUS,
\* START_TYPING, SWITCH_MODE, TOGGLE_SIDEBAR, POST_UPDATE_REQUEST,
\* POST_UPDATE_REQUEST_SUCCESS or POST_UPDATE_REQUEST_FAILURE leaves post,
\* blocksByUid, blockOrder and the history record (past, present, future) of
\* the editor as they were.
C15_OnlyDocumentEventsChangeEditor ==
    action.type \in OtherKinds =>
        /\ Doc(store) = Doc(prev)
        /\ Past(store) = Past(prev)
        /\ Future(store) = Future(prev)
        /\ store.editor = prev.editor

\* C15 as amended: every one of these kinds but POST_UPDATE_REQUEST_SUCCESS
\* leaves the editor state as it was; a POST_UPDATE_REQUEST_SUCCESS makes post
\* the post of the event, leaves blocksByUid and blockOrder as they were,
\* pushes the previous present onto the past (dropping the oldest entry at the
\* maximum depth) and empties the future.
C15_OnlySuccessAmongOthersChangesEditor ==
    /\ action.type \in OtherKinds \ {"POST_UPDATE_REQUEST_SUCCESS"} =>
           /\ store.editor = prev.editor
           /\ editor(prev.editor, action).ref = "same"
    /\ action.type = "POST_UPDATE_REQUEST_SUCCESS" =>
           /\ Doc(store).post = action.post
           /\ Blocks(store) = Blocks(prev)
           /\ Order(store) = Order(prev)
           /\ Past(store) =
                  IF Len(Past(prev)) < HistoryDepth
                  THEN Append(Past(prev), Doc(prev))
                  ELSE Append(Tail(Past(prev)), Doc(prev))
           /\ Future(store) = <<>>

\* C15 witness: a POST_UPDATE_REQUEST_SUCCESS dispatched while a redo was
\* pending, which replaces the post and drops the redo.
C15_SuccessDropsRedo ==
    /\ action.type = "POST_UPDATE_REQUEST_SUCCESS"
    /\ Len(Future(prev)) > 0
    /\ Doc(prev).post # action.post
    /\ Doc(store).post = action.post
    /\ Len(Past(store)) = Len(Past(prev)) + 1
    /\ Future(store) = <<>>

\* a selection event dispatched over a history, which keeps the editor state
SelectOverHistory ==
    /\ action.type \in {"TOGGLE_BLOCK_SELECTED", "START_TYPING", "UPDATE_FOCUS"}
    /\ Len(Past(prev)) > 0
    /\ store.selectedBlock # prev.selectedBlock
    /\ store.editor = prev.editor

\* C16: an UPDATE_BLOCK for an identifier that is not a key of blocksByUid is
\* rejected: the keys of blocksByUid after it are the keys before it, and the
\* identifier has no entry.
C16_UpdateOfUnknownRejected ==
    (action.type = "UPDATE_BLOCK" /\ action.uid \notin DOMAIN Blocks(prev))
        => /\ DOMAIN Blocks(store) = DOMAIN Blocks(prev)
           /\ action.uid \notin DOMAIN Blocks(store)

\* arr with its elements at the 1-based positions i and j exchanged
Swap(arr, i, j) ==
    [k \in 1..Len(arr) |-> IF k = i THEN arr[j] ELSE IF k = j THEN arr[i] ELSE arr[k]]

\* C17: a MOVE_BLOCK_UP of an identifier that occurs in blockOrder after the
\* first position exchanges it with the entry before it, a MOVE_BLOCK_DOWN of
\* one that occurs before the last position with the entry after it; every
\* other position and blocksByUid stay as they were.
C17_MoveSwapsAdjacent ==
    LET o == Order(prev)
        ups == {i \in 2..Len(o) : o[i] = action.uid}
        downs == {i \in 1..(Len(o) - 1) : o[i] = action.uid}
    IN  /\ (action.type = "MOVE_BLOCK_UP" /\ ups # {}) =>
               /\ \E i \in ups : Order(store) = Swap(o, i, i - 1)
               /\ Blocks(store) = Blocks(prev)
        /\ (action.type = "MOVE_BLOCK_DOWN" /\ downs # {}) =>
               /\ \E i \in downs : Order(store) = Swap(o, i, i + 1)
               /\ Blocks(store) = Blocks(prev)

\* C18: hoveredBlock after a TOGGLE_BLOCK_HOVERED is the identifier of the
\* event when hovered is true and null when it is false; after a
\* TOGGLE_BLOCK_SELECTED with selected true it is null; after a START_TYPING it
\* is null, whatever it was; after a TOGGLE_BLOCK_SELECTED with selected false
\* it is what it was.
C18_HoveredBlockCases ==
    /\ action.type = "TOGGLE_BLOCK_HOVERED" =>
           store.hoveredBlock = IF action.hovered THEN action.uid ELSE Null
    /\ (action.type = "TOGGLE_BLOCK_SELECTED" /\ action.selected) =>
           store.hoveredBlock = Null
    /\ action.type = "START_TYPING" => store.hoveredBlock = Null
    /\ (action.type = "TOGGLE_BLOCK_SELECTED" /\ ~action.selected) =>
           /\ store.hoveredBlock = prev.hoveredBlock
           /\ hoveredBlock(prev.hoveredBlock, action).ref = "same"

\* C18 witness: a block deselected while a block was hovered, which stays
\* hovered.
C18_DeselectKeepsHover ==
    /\ action.type = "TOGGLE_BLOCK_SELECTED"
    /\ ~action.selected
    /\ prev.hoveredBlock \in Uids
    /\ store.hoveredBlock = prev.hoveredBlock

\* a hover moved from one block to another
HoverMoved ==
    /\ action.type = "TOGGLE_BLOCK_HOVERED"
    /\ action.hovered
    /\ prev.hoveredBlock \in Uids \ {action.uid}
    /\ store.hoveredBlock = action.uid

\* C19: a START_TYPING for the identifier already selected keeps uid and focus
\* of the selection and makes typing true; for any other identifier the
\* selection becomes {uid: the identifier, typing: true, focus: {}}.
C19_StartTypingCases ==
    action.type = "START_TYPING" =>
        IF Get(prev.selectedBlock, "uid") = action.uid
        THEN /\ DOMAIN store.selectedBlock = DOMAIN prev.selectedBlock
             /\ store.selectedBlock.uid = prev.selectedBlock.uid
             /\ store.selectedBlock.focus = prev.selectedBlock.focus
             /\ store.selectedBlock.typing = TRUE
        ELSE store.selectedBlock = [focus |-> EmptyObj,
                                    typing |-> TRUE,
                                    uid |-> action.uid]

\* C19 witness: typing started in the selected block, which was not being
\* typed in and has a focus.
C19_TypingKeepsFocus ==
    /\ action.type = "START_TYPING"
    /\ Get(prev.selectedBlock, "uid") = action.uid
    /\ ~IsTyping(prev.selectedBlock)
    /\ prev.selectedBlock.focus # EmptyObj
    /\ IsTyping(store.selectedBlock)
    /\ store.selectedBlock.focus = prev.selectedBlock.focus

\* typing started in another block than the selected one, which had a focus
TypingElsewhere ==
    /\ action.type = "START_TYPING"
    /\ Get(prev.selectedBlock, "uid") \in Uids \ {action.uid}
    /\ prev.selectedBlock.focus # EmptyObj
    /\ store.selectedBlock.focus = EmptyObj

\* C20: in every state of the store, an identifier held by selectedBlock.uid
\* is a key of the current blocksByUid and occurs in the current blockOrder.
C20_SelectionNeverDangles ==
    "uid" \in DOMAIN store.selectedBlock =>
        /\ store.selectedBlock.uid \in DOMAIN Blocks(store)
        /\ Occurs(Order(store), store.selectedBlock.uid)

\* the selected block removed from the document, the selection left on it
RemoveOfSelection ==
    /\ action.type = "REMOVE_BLOCK"
    /\ Get(prev.selectedBlock, "uid") = action.uid
    /\ action.uid \in DOMAIN Blocks(prev)
    /\ action.uid \notin DOMAIN Blocks(store)
    /\ Get(store.selectedBlock, "uid") = action.uid

\* C21: in every state of the api slice, requesting and successful are never
\* both true and successful true implies error null; after a
\* POST_UPDATE_REQUEST_FAILURE the status has requesting false, successful
\* false and the error of the event.
C21_ApiStatusConsistent ==
    /\ store.api # EmptyObj =>
           /\ ~(store.api.requesting /\ store.api.successful)
           /\ store.api.successful => store.api.error = Null
    /\ action.type = "POST_UPDATE_REQUEST_FAILURE" =>
           /\ store.api.requesting = FALSE
           /\ store.api.successful = FALSE
           /\ store.api.error = action.error

\* the part of C21 the three cases of api keep: requesting and successful are
\* never both true
NeverRequestingAndSuccessful ==
    store.api # EmptyObj => ~(store.api.requesting /\ store.api.successful)

====
